---- MODULE Spec2Model ----
(***************************************************************************)
(* Model of M5UnitML (src/+arduinoioaddons/+M5Stack/src/M5UnitML.h): the   *)
(* MATLAB add-on command dispatcher in front of the M5UnitSynth driver.    *)
(*                                                                         *)
(* The dispatcher is single threaded: the host link calls commandHandler   *)
(* once per frame and the handler runs to completion.  One dispatch is one *)
(* action; what it did (device calls, response sent, payload indices read) *)
(* is kept in the state until the handler returns (action Return).         *)
(***************************************************************************)
EXTENDS Integers, Sequences, FiniteSets

(***************************************************************************)
(* Command IDs, M5UnitML.h lines 32-52.                                    *)
(***************************************************************************)
CMD_BEGIN == 1
CMD_SET_INSTRUMENT == 2
CMD_SET_NOTE_ON == 3
CMD_SET_NOTE_OFF == 4
CMD_SET_ALL_NOTE_OFF == 5
CMD_SET_PITCH_BEND == 6
CMD_SET_PITCH_BEND_RANGE == 7
CMD_SET_MASTER_VOLUME == 8
CMD_SET_CHANNEL_VOLUME == 9
CMD_SET_EXPRESSION == 10
CMD_SET_REVERB == 11
CMD_SET_CHORUS == 12
CMD_SET_PAN == 13
CMD_SET_EQUALIZER == 14
CMD_SET_TUNING == 15
CMD_SET_VIBRATE == 16
CMD_SET_TVF == 17
CMD_SET_ENVELOPE == 18
CMD_SET_MOD_WHEEL == 19
CMD_SET_ALL_DRUMS == 20
CMD_RESET == 21

KnownIDs ==
  { CMD_BEGIN, CMD_SET_INSTRUMENT, CMD_SET_NOTE_ON, CMD_SET_NOTE_OFF,
    CMD_SET_ALL_NOTE_OFF, CMD_SET_PITCH_BEND, CMD_SET_PITCH_BEND_RANGE,
    CMD_SET_MASTER_VOLUME, CMD_SET_CHANNEL_VOLUME, CMD_SET_EXPRESSION,
    CMD_SET_REVERB, CMD_SET_CHORUS, CMD_SET_PAN, CMD_SET_EQUALIZER,
    CMD_SET_TUNING, CMD_SET_VIBRATE, CMD_SET_TVF, CMD_SET_ENVELOPE,
    CMD_SET_MOD_WHEEL, CMD_SET_ALL_DRUMS, CMD_RESET }

(***************************************************************************)
(* Types and program constants.                                            *)
(***************************************************************************)
ByteMax == 255
Byte == 0..ByteMax
ResponseCapacity == 32
DefaultRxPin == 16
DefaultTxPin == 17
DefaultBaud == 31250

NULL == 0
HANDLE == 1
Uninit == -1

(***************************************************************************)
(* Bounds of the explored inputs.                                          *)
(***************************************************************************)
MaxLen == 10
LowByte == 0
HighByte == 200

PayloadBytes == {LowByte, HighByte}

BoundedPayloads == UNION { [1..n -> PayloadBytes] : n \in 0..MaxLen }

SamplePayloads ==
  { << >>, <<16, 17>>, <<0, 60, 100>>, <<0, 60, 0>>, <<0, 60>>, <<3, 0, 128>>,
    <<3, 255, 127>>, <<16, 17, 62, 122>>, <<4, 5, 62>>, <<9>>,
    <<1, 2, 3, 4, 5, 6, 7, 8, 9>> }

Payloads == BoundedPayloads \cup SamplePayloads

UnknownIDs == Byte \ KnownIDs
ProbeIDs == {c \in {0, 22, 128, 255} : c \in UnknownIDs}

WideChannels == {0, 15}
WidePins == {16}

VARIABLES synth, handlesCreated, pc, cmdID, dataIn, payloadSize,
          responseData, responseSize, trace, reads

vars == <<synth, handlesCreated, pc, cmdID, dataIn, payloadSize,
          responseData, responseSize, trace, reads>>

(***************************************************************************)
(* C++ arithmetic used by the decoders.                                    *)
(***************************************************************************)
RECURSIVE BitOr(_, _)
BitOr(a, b) ==
  IF a = 0 THEN b
  ELSE IF b = 0 THEN a
  ELSE (IF a % 2 = 1 \/ b % 2 = 1 THEN 1 ELSE 0) + 2 * BitOr(a \div 2, b \div 2)

\* byte << 8 after integral promotion to a 32-bit int: no bit is lost.
Shl8(b) == b * 256

\* conversion of an int to uint16_t
ToUint16(v) == v % 65536

\* bend kept unsigned (a uint16_t local)
Mut_ToInt16(v) == v % 65536

\* conversion of an int to int16_t (two's complement wrap)
ToInt16(v) == LET u == v % 65536 IN IF u >= 32768 THEN u - 65536 ELSE u

\* dataIn[i]; the handler only reads below payloadSize, beyond it the
\* buffer content is not the frame's.
At(d, i) == IF i < Len(d) THEN d[i + 1] ELSE Uninit


(***************************************************************************)
(* What one switch case does: the handle afterwards, the number of         *)
(* M5UnitSynth objects constructed, the device calls in order, the value   *)
(* stored in responseData[0], responseSize, and the dataIn indices read.   *)
(***************************************************************************)
\* then-branch of a case: synth-><op>(args); responseData[0] = 1; responseSize = 1
Invoked(s, op, args, rd) ==
  [synth |-> s, news |-> 0, calls |-> << [op |-> op, args |-> args] >>,
   r0 |-> 1, rsize |-> 1, reads |-> rd]

\* else-branch of a case: responseData[0] = 0; responseSize = 1
Rejected(s) ==
  [synth |-> s, news |-> 0, calls |-> << >>, r0 |-> 0, rsize |-> 1, reads |-> {}]

(***************************************************************************)
(* case CMD_BEGIN                                                          *)
(***************************************************************************)
DecodeRxPin(d) == IF Len(d) > 0 THEN At(d, 0) ELSE DefaultRxPin

DecodeTxPin(d) == IF Len(d) > 1 THEN At(d, 1) ELSE DefaultTxPin

\* baud bytes taken most significant first
Mut_DecodeBaud(d) ==
  IF Len(d) > 3 THEN ToUint16(BitOr(At(d, 3), Shl8(At(d, 2)))) ELSE DefaultBaud

DecodeBaud(d) ==
  IF Len(d) > 3 THEN ToUint16(BitOr(At(d, 2), Shl8(At(d, 3)))) ELSE DefaultBaud

BeginReads(d) ==
  (IF Len(d) > 0 THEN {0} ELSE {}) \cup (IF Len(d) > 1 THEN {1} ELSE {})
    \cup (IF Len(d) > 3 THEN {2, 3} ELSE {})

\* a new M5UnitSynth on every Begin
Mut_CaseBegin(s, d) ==
  [synth |-> HANDLE,
   news |-> 1,
   calls |-> << [op |-> "begin",
                 args |-> <<DecodeBaud(d), DecodeRxPin(d), DecodeTxPin(d)>>] >>,
   r0 |-> 1, rsize |-> 1, reads |-> BeginReads(d)]

CaseBegin(s, d) ==
  [synth |-> HANDLE,
   news |-> IF s = NULL THEN 1 ELSE 0,
   calls |-> << [op |-> "begin",
                 args |-> <<DecodeBaud(d), DecodeRxPin(d), DecodeTxPin(d)>>] >>,
   r0 |-> 1, rsize |-> 1, reads |-> BeginReads(d)]

(***************************************************************************)
(* The forwarding cases.                                                   *)
(***************************************************************************)
CaseSetInstrument(s, d) ==
  IF s # NULL /\ Len(d) >= 3
  THEN Invoked(s, "setInstrument", <<At(d, 0), At(d, 1), At(d, 2)>>, {0, 1, 2})
  ELSE Rejected(s)

\* the handle is not checked
Mut_CaseSetNoteOn(s, d) ==
  IF Len(d) >= 3
  THEN Invoked(s, "setNoteOn", <<At(d, 0), At(d, 1), At(d, 2)>>, {0, 1, 2})
  ELSE Rejected(s)

CaseSetNoteOn(s, d) ==
  IF s # NULL /\ Len(d) >= 3
  THEN Invoked(s, "setNoteOn", <<At(d, 0), At(d, 1), At(d, 2)>>, {0, 1, 2})
  ELSE Rejected(s)

\* velocity optional, defaulting to 0
Mut_CaseSetNoteOff(s, d) ==
  IF s # NULL /\ Len(d) >= 2
  THEN Invoked(s, "setNoteOff",
               <<At(d, 0), At(d, 1), IF Len(d) >= 3 THEN At(d, 2) ELSE 0>>,
               IF Len(d) >= 3 THEN {0, 1, 2} ELSE {0, 1})
  ELSE Rejected(s)

CaseSetNoteOff(s, d) ==
  IF s # NULL /\ Len(d) >= 3
  THEN Invoked(s, "setNoteOff", <<At(d, 0), At(d, 1), At(d, 2)>>, {0, 1, 2})
  ELSE Rejected(s)

CaseSetAllNoteOff(s, d) ==
  IF s # NULL /\ Len(d) >= 1
  THEN Invoked(s, "setAllNotesOff", <<At(d, 0)>>, {0})
  ELSE Rejected(s)

DecodeBend(d) == ToInt16(BitOr(At(d, 1), Shl8(At(d, 2))))

CaseSetPitchBend(s, d) ==
  IF s # NULL /\ Len(d) >= 3
  THEN Invoked(s, "setPitchBend", <<At(d, 0), DecodeBend(d)>>, {0, 1, 2})
  ELSE Rejected(s)

CaseSetPitchBendRange(s, d) ==
  IF s # NULL /\ Len(d) >= 2
  THEN Invoked(s, "setPitchBendRange", <<At(d, 0), At(d, 1)>>, {0, 1})
  ELSE Rejected(s)

CaseSetMasterVolume(s, d) ==
  IF s # NULL /\ Len(d) >= 1
  THEN Invoked(s, "setMasterVolume", <<At(d, 0)>>, {0})
  ELSE Rejected(s)

CaseSetChannelVolume(s, d) ==
  IF s # NULL /\ Len(d) >= 2
  THEN Invoked(s, "setVolume", <<At(d, 0), At(d, 1)>>, {0, 1})
  ELSE Rejected(s)

CaseSetExpression(s, d) ==
  IF s # NULL /\ Len(d) >= 2
  THEN Invoked(s, "setExpression", <<At(d, 0), At(d, 1)>>, {0, 1})
  ELSE Rejected(s)

\* length check one short
Mut_CaseSetReverb(s, d) ==
  IF s # NULL /\ Len(d) >= 3
  THEN Invoked(s, "setReverb", <<At(d, 0), At(d, 1), At(d, 2), At(d, 3)>>,
               {0, 1, 2, 3})
  ELSE Rejected(s)

CaseSetReverb(s, d) ==
  IF s # NULL /\ Len(d) >= 4
  THEN Invoked(s, "setReverb", <<At(d, 0), At(d, 1), At(d, 2), At(d, 3)>>,
               {0, 1, 2, 3})
  ELSE Rejected(s)

CaseSetChorus(s, d) ==
  IF s # NULL /\ Len(d) >= 5
  THEN Invoked(s, "setChorus",
               <<At(d, 0), At(d, 1), At(d, 2), At(d, 3), At(d, 4)>>,
               {0, 1, 2, 3, 4})
  ELSE Rejected(s)

\* arguments swapped
Mut_CaseSetPan(s, d) ==
  IF s # NULL /\ Len(d) >= 2
  THEN Invoked(s, "setPan", <<At(d, 1), At(d, 0)>>, {0, 1})
  ELSE Rejected(s)

CaseSetPan(s, d) ==
  IF s # NULL /\ Len(d) >= 2
  THEN Invoked(s, "setPan", <<At(d, 0), At(d, 1)>>, {0, 1})
  ELSE Rejected(s)

CaseSetEqualizer(s, d) ==
  IF s # NULL /\ Len(d) >= 9
  THEN Invoked(s, "setEqualizer",
               <<At(d, 0), At(d, 1), At(d, 2), At(d, 3), At(d, 4), At(d, 5),
                 At(d, 6), At(d, 7), At(d, 8)>>,
               {0, 1, 2, 3, 4, 5, 6, 7, 8})
  ELSE Rejected(s)

CaseSetTuning(s, d) ==
  IF s # NULL /\ Len(d) >= 3
  THEN Invoked(s, "setTuning", <<At(d, 0), At(d, 1), At(d, 2)>>, {0, 1, 2})
  ELSE Rejected(s)

CaseSetVibrate(s, d) ==
  IF s # NULL /\ Len(d) >= 4
  THEN Invoked(s, "setVibrate", <<At(d, 0), At(d, 1), At(d, 2), At(d, 3)>>,
               {0, 1, 2, 3})
  ELSE Rejected(s)

CaseSetTvf(s, d) ==
  IF s # NULL /\ Len(d) >= 3
  THEN Invoked(s, "setTvf", <<At(d, 0), At(d, 1), At(d, 2)>>, {0, 1, 2})
  ELSE Rejected(s)

CaseSetEnvelope(s, d) ==
  IF s # NULL /\ Len(d) >= 4
  THEN Invoked(s, "setEnvelope", <<At(d, 0), At(d, 1), At(d, 2), At(d, 3)>>,
               {0, 1, 2, 3})
  ELSE Rejected(s)

CaseSetModWheel(s, d) ==
  IF s # NULL /\ Len(d) >= 8
  THEN Invoked(s, "setModWheel",
               <<At(d, 0), At(d, 1), At(d, 2), At(d, 3), At(d, 4), At(d, 5),
                 At(d, 6), At(d, 7)>>,
               {0, 1, 2, 3, 4, 5, 6, 7})
  ELSE Rejected(s)

CaseSetAllDrums(s, d) ==
  IF s # NULL
  THEN Invoked(s, "setAllInstrumentDrums", << >>, {})
  ELSE Rejected(s)

\* reset drops the handle
Mut_CaseReset(s, d) ==
  IF s # NULL
  THEN [Invoked(s, "reset", << >>, {}) EXCEPT !.synth = NULL]
  ELSE Rejected(s)

CaseReset(s, d) ==
  IF s # NULL
  THEN Invoked(s, "reset", << >>, {})
  ELSE Rejected(s)

\* default acknowledges
Mut_CaseDefaultAck(s, d) == [Rejected(s) EXCEPT !.r0 = 1]

\* default leaves responseData[0] unwritten
Mut_CaseDefaultUnwritten(s, d) == [Rejected(s) EXCEPT !.r0 = Uninit]

\* default: responseData[0] = 0; responseSize = 1
CaseDefault(s, d) == Rejected(s)

\* switch (cmdID)
Switch(c, s, d) ==
  CASE c = CMD_BEGIN -> CaseBegin(s, d)
    [] c = CMD_SET_INSTRUMENT -> CaseSetInstrument(s, d)
    [] c = CMD_SET_NOTE_ON -> CaseSetNoteOn(s, d)
    [] c = CMD_SET_NOTE_OFF -> CaseSetNoteOff(s, d)
    [] c = CMD_SET_ALL_NOTE_OFF -> CaseSetAllNoteOff(s, d)
    [] c = CMD_SET_PITCH_BEND -> CaseSetPitchBend(s, d)
    [] c = CMD_SET_PITCH_BEND_RANGE -> CaseSetPitchBendRange(s, d)
    [] c = CMD_SET_MASTER_VOLUME -> CaseSetMasterVolume(s, d)
    [] c = CMD_SET_CHANNEL_VOLUME -> CaseSetChannelVolume(s, d)
    [] c = CMD_SET_EXPRESSION -> CaseSetExpression(s, d)
    [] c = CMD_SET_REVERB -> CaseSetReverb(s, d)
    [] c = CMD_SET_CHORUS -> CaseSetChorus(s, d)
    [] c = CMD_SET_PAN -> CaseSetPan(s, d)
    [] c = CMD_SET_EQUALIZER -> CaseSetEqualizer(s, d)
    [] c = CMD_SET_TUNING -> CaseSetTuning(s, d)
    [] c = CMD_SET_VIBRATE -> CaseSetVibrate(s, d)
    [] c = CMD_SET_TVF -> CaseSetTvf(s, d)
    [] c = CMD_SET_ENVELOPE -> CaseSetEnvelope(s, d)
    [] c = CMD_SET_MOD_WHEEL -> CaseSetModWheel(s, d)
    [] c = CMD_SET_ALL_DRUMS -> CaseSetAllDrums(s, d)
    [] c = CMD_RESET -> CaseReset(s, d)
    [] OTHER -> CaseDefault(s, d)

(***************************************************************************)
(* The response buffer and sendResponseMsg.                                *)
(***************************************************************************)
\* byte responseData[32]; (not initialised)
FreshResponseData == [i \in 0..(ResponseCapacity - 1) |-> Uninit]

\* the bytes sendResponseMsg(cmdID, responseData, responseSize) transmits
SentBytes(buf, size) == [i \in 1..size |-> buf[i - 1]]

SendResponseMsg(c, buf, size) ==
  << [op |-> "sendResponseMsg", args |-> <<c, size>> \o SentBytes(buf, size)] >>

(***************************************************************************)
(* State machine.                                                          *)
(***************************************************************************)
\* M5UnitML::M5UnitML: synth = nullptr; no command is in progress.
Init ==
  /\ synth = NULL
  /\ handlesCreated = 0
  /\ pc = "idle"
  /\ cmdID = 0
  /\ dataIn = << >>
  /\ payloadSize = 0
  /\ responseData = FreshResponseData
  /\ responseSize = 0
  /\ trace = << >>
  /\ reads = {}

\* void commandHandler(byte cmdID, byte* dataIn, unsigned int payloadSize)
CommandHandler(c, d) ==
  /\ pc = "idle"
  /\ LET e == Switch(c, synth, d)
         buf == [FreshResponseData EXCEPT ![0] = e.r0]
     IN /\ synth' = e.synth
        /\ handlesCreated' = handlesCreated + e.news
        /\ responseData' = buf
        /\ responseSize' = e.rsize
        /\ reads' = e.reads
        /\ trace' = e.calls \o SendResponseMsg(c, buf, e.rsize)
  /\ cmdID' = c
  /\ dataIn' = d
  /\ payloadSize' = Len(d)
  /\ pc' = "done"

\* the handler returns to the host link; its locals are gone
Return ==
  /\ pc = "done"
  /\ pc' = "idle"
  /\ cmdID' = 0
  /\ dataIn' = << >>
  /\ payloadSize' = 0
  /\ responseData' = FreshResponseData
  /\ responseSize' = 0
  /\ trace' = << >>
  /\ reads' = {}
  /\ UNCHANGED <<synth, handlesCreated>>

Begin == pc = "idle" /\ \E d \in Payloads : CommandHandler(CMD_BEGIN, d)
SetInstrument == pc = "idle" /\ \E d \in Payloads : CommandHandler(CMD_SET_INSTRUMENT, d)
SetNoteOn == pc = "idle" /\ \E d \in Payloads : CommandHandler(CMD_SET_NOTE_ON, d)
SetNoteOff == pc = "idle" /\ \E d \in Payloads : CommandHandler(CMD_SET_NOTE_OFF, d)
SetAllNoteOff == pc = "idle" /\ \E d \in Payloads : CommandHandler(CMD_SET_ALL_NOTE_OFF, d)
SetPitchBend == pc = "idle" /\ \E d \in Payloads : CommandHandler(CMD_SET_PITCH_BEND, d)
SetPitchBendRange == pc = "idle" /\ \E d \in Payloads : CommandHandler(CMD_SET_PITCH_BEND_RANGE, d)
SetMasterVolume == pc = "idle" /\ \E d \in Payloads : CommandHandler(CMD_SET_MASTER_VOLUME, d)
SetChannelVolume == pc = "idle" /\ \E d \in Payloads : CommandHandler(CMD_SET_CHANNEL_VOLUME, d)
SetExpression == pc = "idle" /\ \E d \in Payloads : CommandHandler(CMD_SET_EXPRESSION, d)
SetReverb == pc = "idle" /\ \E d \in Payloads : CommandHandler(CMD_SET_REVERB, d)
SetChorus == pc = "idle" /\ \E d \in Payloads : CommandHandler(CMD_SET_CHORUS, d)
SetPan == pc = "idle" /\ \E d \in Payloads : CommandHandler(CMD_SET_PAN, d)
SetEqualizer == pc = "idle" /\ \E d \in Payloads : CommandHandler(CMD_SET_EQUALIZER, d)
SetTuning == pc = "idle" /\ \E d \in Payloads : CommandHandler(CMD_SET_TUNING, d)
SetVibrate == pc = "idle" /\ \E d \in Payloads : CommandHandler(CMD_SET_VIBRATE, d)
SetTvf == pc = "idle" /\ \E d \in Payloads : CommandHandler(CMD_SET_TVF, d)
SetEnvelope == pc = "idle" /\ \E d \in Payloads : CommandHandler(CMD_SET_ENVELOPE, d)
SetModWheel == pc = "idle" /\ \E d \in Payloads : CommandHandler(CMD_SET_MOD_WHEEL, d)
SetAllDrums == pc = "idle" /\ \E d \in Payloads : CommandHandler(CMD_SET_ALL_DRUMS, d)
Reset == pc = "idle" /\ \E d \in Payloads : CommandHandler(CMD_RESET, d)

\* an unknown identifier: every payload for the probe identifiers, and every
\* unknown identifier for the sample payloads
Unknown ==
  /\ pc = "idle"
  /\ \/ \E c \in ProbeIDs, d \in Payloads : CommandHandler(c, d)
     \/ \E c \in UnknownIDs, d \in SamplePayloads : CommandHandler(c, d)

Next ==
  \/ Begin
  \/ SetInstrument
  \/ SetNoteOn
  \/ SetNoteOff
  \/ SetAllNoteOff
  \/ SetPitchBend
  \/ SetPitchBendRange
  \/ SetMasterVolume
  \/ SetChannelVolume
  \/ SetExpression
  \/ SetReverb
  \/ SetChorus
  \/ SetPan
  \/ SetEqualizer
  \/ SetTuning
  \/ SetVibrate
  \/ SetTvf
  \/ SetEnvelope
  \/ SetModWheel
  \/ SetAllDrums
  \/ Reset
  \/ Unknown
  \/ Return

Spec == Init /\ [][Next]_vars

(***************************************************************************)
(* The decoders over the whole byte range: Begin with every pair of baud   *)
(* bytes and Pitch Bend with every pair of bend bytes.                     *)
(***************************************************************************)
WideBeginPayloads ==
  { <<rx, tx, b2, b3>> : rx \in WidePins, tx \in WidePins, b2 \in Byte, b3 \in Byte }

WideBendPayloads ==
  { <<ch, lo, hi>> : ch \in WideChannels, lo \in Byte, hi \in Byte }

BeginWide == pc = "idle" /\ \E d \in WideBeginPayloads \cup SamplePayloads : CommandHandler(CMD_BEGIN, d)

SetPitchBendWide == pc = "idle" /\ \E d \in WideBendPayloads : CommandHandler(CMD_SET_PITCH_BEND, d)

NextWide == BeginWide \/ SetPitchBendWide \/ Return

SpecWide == Init /\ [][NextWide]_vars


(***************************************************************************)
(* Observations of one dispatch.                                           *)
(***************************************************************************)
IsSend(e) == e.op = "sendResponseMsg"
IsDeviceCall(e) == e.op # "sendResponseMsg"
DeviceCalls == SelectSeq(trace, IsDeviceCall)
Sends == SelectSeq(trace, IsSend)

\* the acknowledgment byte the host receives
Ack == IF Len(Sends) = 1 /\ Len(Sends[1].args) = 3 THEN Sends[1].args[3] ELSE Uninit

Dispatching == pc = "idle" /\ pc' = "done"

\* spec section 4.1, column "Required payload bytes (min)"
DocMin(c) ==
  CASE c = CMD_SET_INSTRUMENT -> 3
    [] c = CMD_SET_NOTE_ON -> 3
    [] c = CMD_SET_NOTE_OFF -> 2
    [] c = CMD_SET_ALL_NOTE_OFF -> 1
    [] c = CMD_SET_CHANNEL_VOLUME -> 2
    [] c = CMD_SET_MASTER_VOLUME -> 1
    [] c = CMD_SET_PITCH_BEND -> 3
    [] c = CMD_SET_PITCH_BEND_RANGE -> 2
    [] c = CMD_SET_PAN -> 2
    [] c = CMD_SET_REVERB -> 4
    [] c = CMD_SET_CHORUS -> 5
    [] c = CMD_SET_EQUALIZER -> 9
    [] c = CMD_SET_TUNING -> 3
    [] c = CMD_SET_VIBRATE -> 4
    [] c = CMD_SET_TVF -> 3
    [] c = CMD_SET_ENVELOPE -> 4
    [] c = CMD_SET_MOD_WHEEL -> 8
    [] OTHER -> 0

\* the number of parameter bytes of each command's layout
ParamBytes(c) ==
  CASE c = CMD_BEGIN -> 0
    [] c = CMD_SET_INSTRUMENT -> 3
    [] c = CMD_SET_NOTE_ON -> 3
    [] c = CMD_SET_NOTE_OFF -> 3
    [] c = CMD_SET_ALL_NOTE_OFF -> 1
    [] c = CMD_SET_PITCH_BEND -> 3
    [] c = CMD_SET_PITCH_BEND_RANGE -> 2
    [] c = CMD_SET_MASTER_VOLUME -> 1
    [] c = CMD_SET_CHANNEL_VOLUME -> 2
    [] c = CMD_SET_EXPRESSION -> 2
    [] c = CMD_SET_REVERB -> 4
    [] c = CMD_SET_CHORUS -> 5
    [] c = CMD_SET_PAN -> 2
    [] c = CMD_SET_EQUALIZER -> 9
    [] c = CMD_SET_TUNING -> 3
    [] c = CMD_SET_VIBRATE -> 4
    [] c = CMD_SET_TVF -> 3
    [] c = CMD_SET_ENVELOPE -> 4
    [] c = CMD_SET_MOD_WHEEL -> 8
    [] c = CMD_SET_ALL_DRUMS -> 0
    [] c = CMD_RESET -> 0

\* the device operation each command stands for
DeviceOp(c) ==
  CASE c = CMD_BEGIN -> "begin"
    [] c = CMD_SET_INSTRUMENT -> "setInstrument"
    [] c = CMD_SET_NOTE_ON -> "setNoteOn"
    [] c = CMD_SET_NOTE_OFF -> "setNoteOff"
    [] c = CMD_SET_ALL_NOTE_OFF -> "setAllNotesOff"
    [] c = CMD_SET_PITCH_BEND -> "setPitchBend"
    [] c = CMD_SET_PITCH_BEND_RANGE -> "setPitchBendRange"
    [] c = CMD_SET_MASTER_VOLUME -> "setMasterVolume"
    [] c = CMD_SET_CHANNEL_VOLUME -> "setVolume"
    [] c = CMD_SET_EXPRESSION -> "setExpression"
    [] c = CMD_SET_REVERB -> "setReverb"
    [] c = CMD_SET_CHORUS -> "setChorus"
    [] c = CMD_SET_PAN -> "setPan"
    [] c = CMD_SET_EQUALIZER -> "setEqualizer"
    [] c = CMD_SET_TUNING -> "setTuning"
    [] c = CMD_SET_VIBRATE -> "setVibrate"
    [] c = CMD_SET_TVF -> "setTvf"
    [] c = CMD_SET_ENVELOPE -> "setEnvelope"
    [] c = CMD_SET_MOD_WHEEL -> "setModWheel"
    [] c = CMD_SET_ALL_DRUMS -> "setAllInstrumentDrums"
    [] c = CMD_RESET -> "reset"

\* signed 16-bit little-endian value of the byte pair (lo, hi)
SignedLE(lo, hi) == ((lo + 256 * hi + 32768) % 65536) - 32768

\* the parameters the device operation is expected to get from payload d
ExpectedArgs(c, d) ==
  CASE c = CMD_BEGIN ->
         << IF Len(d) >= 4 THEN d[3] + 256 * d[4] ELSE 31250,
            IF Len(d) >= 1 THEN d[1] ELSE 16,
            IF Len(d) >= 2 THEN d[2] ELSE 17 >>
    [] c = CMD_SET_PITCH_BEND -> << d[1], SignedLE(d[2], d[3]) >>
    [] OTHER -> SubSeq(d, 1, ParamBytes(c))


(***************************************************************************)
(* Claims.                                                                 *)
(***************************************************************************)

\* C1: every command other than Begin that is dispatched while no handle has
\* ever been created is answered with ack 0, calls no device operation and
\* leaves the handle absent.
C1_UninitializedRejected ==
  [][ (Dispatching /\ handlesCreated = 0 /\ synth = NULL /\ cmdID' # CMD_BEGIN)
        => /\ Ack' = 0
           /\ DeviceCalls' = << >>
           /\ synth' = NULL
           /\ handlesCreated' = 0 ]_vars

C1_Witness ==
  /\ pc = "done"
  /\ cmdID = CMD_SET_NOTE_ON
  /\ dataIn = <<0, 60, 100>>
  /\ handlesCreated = 0
  /\ synth = NULL
  /\ Ack = 0
  /\ DeviceCalls = << >>

\* C2: in any initialization state a payload shorter than the documented
\* minimum of the command is answered with ack 0 and no device call, and no
\* dispatch reads a payload byte at an index >= payloadSize.
C2_ShortPayloadRejected ==
  pc = "done" =>
    /\ payloadSize < DocMin(cmdID) => (Ack = 0 /\ DeviceCalls = << >>)
    /\ \A i \in reads : i < payloadSize

C2_Witness ==
  /\ pc = "done"
  /\ cmdID = CMD_SET_REVERB
  /\ payloadSize = 3
  /\ synth = HANDLE
  /\ Ack = 0
  /\ DeviceCalls = << >>

\* C3 as stated: once initialized, Note Off with a 2-byte payload is answered
\* with ack 1 and calls setNoteOff(channel, pitch, 0); a 3-byte payload uses
\* byte 2 as the velocity.
C3_NoteOffTwoBytesAccepted ==
  [][ (Dispatching /\ synth # NULL /\ cmdID' = CMD_SET_NOTE_OFF)
        => /\ payloadSize' = 2 =>
                /\ Ack' = 1
                /\ DeviceCalls' =
                     << [op |-> "setNoteOff",
                         args |-> <<dataIn'[1], dataIn'[2], 0>>] >>
           /\ payloadSize' = 3 =>
                /\ Ack' = 1
                /\ DeviceCalls' =
                     << [op |-> "setNoteOff",
                         args |-> <<dataIn'[1], dataIn'[2], dataIn'[3]>>] >> ]_vars

\* C3 amended: once initialized, Note Off with a 2-byte payload is answered
\* with ack 0 and calls no device operation (the velocity has no default); a
\* payload of 3 bytes is answered with ack 1 and calls
\* setNoteOff(channel, pitch, byte 2).
C3_NoteOffNeedsThreeBytes ==
  [][ (Dispatching /\ synth # NULL /\ cmdID' = CMD_SET_NOTE_OFF)
        => /\ payloadSize' = 2 => (Ack' = 0 /\ DeviceCalls' = << >>)
           /\ payloadSize' = 3 =>
                /\ Ack' = 1
                /\ DeviceCalls' =
                     << [op |-> "setNoteOff",
                         args |-> <<dataIn'[1], dataIn'[2], dataIn'[3]>>] >> ]_vars

C3_Witness ==
  /\ pc = "done"
  /\ cmdID = CMD_SET_NOTE_OFF
  /\ dataIn = <<0, 60>>
  /\ synth = HANDLE
  /\ Ack = 0
  /\ DeviceCalls = << >>

\* C4: an identifier that is none of the defined command IDs is answered with
\* ack 0 in every initialization state and for every payload, calls no device
\* operation and neither creates nor changes the handle.
C4_UnknownRejected ==
  [][ (Dispatching /\ cmdID' \notin KnownIDs)
        => /\ Ack' = 0
           /\ DeviceCalls' = << >>
           /\ synth' = synth
           /\ handlesCreated' = handlesCreated ]_vars

C4_Witness ==
  /\ pc = "done"
  /\ cmdID = 255
  /\ dataIn = <<0, 60, 100>>
  /\ synth = HANDLE
  /\ Ack = 0
  /\ DeviceCalls = << >>

\* C5: Pitch Bend passes channel = byte 0 and bend = the signed two's
\* complement 16-bit little-endian value of bytes 1-2 to setPitchBend;
\* [ch, 0x00, 0x80] gives -32768 and [ch, 0xFF, 0x7F] gives +32767.
C5_PitchBendDecoding ==
  (pc = "done" /\ cmdID = CMD_SET_PITCH_BEND /\ synth # NULL /\ payloadSize >= 3)
    => /\ DeviceCalls =
            << [op |-> "setPitchBend",
                args |-> <<dataIn[1], SignedLE(dataIn[2], dataIn[3])>>] >>
       /\ (dataIn[2] = 0 /\ dataIn[3] = 128) => DeviceCalls[1].args[2] = -32768
       /\ (dataIn[2] = 255 /\ dataIn[3] = 127) => DeviceCalls[1].args[2] = 32767

C5_Witness ==
  /\ pc = "done"
  /\ cmdID = CMD_SET_PITCH_BEND
  /\ dataIn = <<15, 0, 128>>
  /\ Ack = 1
  /\ DeviceCalls = << [op |-> "setPitchBend", args |-> <<15, -32768>>] >>

\* C6: Begin calls the device's begin with baud = byte2 + 256*byte3 when the
\* payload has at least 4 bytes and 31250 for the payload lengths 0..3, with
\* RX pin = byte 0 (16 when absent) and TX pin = byte 1 (17 when absent);
\* [rx, tx, 0x3E, 0x7A] gives baud 31294.
C6_BeginDecoding ==
  (pc = "done" /\ cmdID = CMD_BEGIN)
    => /\ Len(DeviceCalls) = 1
       /\ DeviceCalls[1].op = "begin"
       /\ DeviceCalls[1].args[1] =
            (IF payloadSize >= 4 THEN dataIn[3] + 256 * dataIn[4] ELSE 31250)
       /\ DeviceCalls[1].args[2] = (IF payloadSize >= 1 THEN dataIn[1] ELSE 16)
       /\ DeviceCalls[1].args[3] = (IF payloadSize >= 2 THEN dataIn[2] ELSE 17)
       /\ (payloadSize = 4 /\ dataIn[3] = 62 /\ dataIn[4] = 122)
             => DeviceCalls[1].args[1] = 31294

C6_Witness ==
  /\ pc = "done"
  /\ cmdID = CMD_BEGIN
  /\ dataIn = <<16, 17, 62, 122>>
  /\ DeviceCalls = << [op |-> "begin", args |-> <<31294, 16, 17>>] >>

\* C7: Begin never fails: in every state and for every payload it is answered
\* with ack 1, calls the device's begin exactly once and leaves the handle
\* present; a handle is created only when none exists, so at most one handle
\* is ever created.
C7_BeginNeverFails ==
  /\ [](handlesCreated <= 1)
  /\ [][ (Dispatching /\ cmdID' = CMD_BEGIN)
           => /\ Ack' = 1
              /\ Len(DeviceCalls') = 1
              /\ DeviceCalls'[1].op = "begin"
              /\ synth' # NULL
              /\ handlesCreated' =
                   (IF synth = NULL THEN handlesCreated + 1 ELSE handlesCreated) ]_vars

C7_Witness ==
  /\ pc = "done"
  /\ cmdID = CMD_BEGIN
  /\ payloadSize = 0
  /\ synth = HANDLE
  /\ handlesCreated = 1
  /\ Ack = 1

\* C8: once a Begin has been dispatched no later command makes the dispatcher
\* uninitialized again, and every later recognized command that carries its
\* full parameter layout is answered with ack 1 (note-on [0,60,100], note-off
\* [0,60,0] and All Notes Off among them).
C8_InitializationPermanent ==
  /\ [][ synth # NULL => synth' # NULL ]_vars
  /\ [][ handlesCreated >= 1 => handlesCreated' >= 1 /\ synth' # NULL ]_vars
  /\ [][ (Dispatching /\ handlesCreated >= 1 /\ cmdID' \in KnownIDs
            /\ payloadSize' >= ParamBytes(cmdID'))
           => Ack' = 1 ]_vars

C8_Witness ==
  /\ pc = "done"
  /\ cmdID = CMD_SET_NOTE_OFF
  /\ dataIn = <<0, 60, 0>>
  /\ handlesCreated = 1
  /\ Ack = 1
  /\ DeviceCalls = << [op |-> "setNoteOff", args |-> <<0, 60, 0>>] >>

\* C9: a dispatch is answered with ack 0 exactly when the ID is unrecognized,
\* or the command is not Begin and the device is not initialized, or the
\* payload is shorter than the command requires; otherwise the ack is 1 and
\* exactly the command's device operation is called once with the decoded
\* payload bytes in order, unchecked against their documented ranges, the
\* bytes beyond the required length being ignored.
C9_FailureTaxonomy ==
  [][ Dispatching =>
        LET c == cmdID'
            d == dataIn'
            fails == \/ c \notin KnownIDs
                     \/ (c # CMD_BEGIN /\ synth = NULL)
                     \/ (c \in KnownIDs /\ Len(d) < ParamBytes(c))
        IN /\ Ack' \in {0, 1}
           /\ Ack' = 0 <=> fails
           /\ fails => DeviceCalls' = << >>
           /\ ~fails => DeviceCalls' =
                          << [op |-> DeviceOp(c), args |-> ExpectedArgs(c, d)] >> ]_vars

C9_Witness ==
  /\ pc = "done"
  /\ cmdID = CMD_SET_PAN
  /\ payloadSize > 2
  /\ dataIn[1] > 15
  /\ dataIn[2] > 127
  /\ Ack = 1
  /\ DeviceCalls = << [op |-> "setPan", args |-> <<dataIn[1], dataIn[2]>>] >>

\* C10: every dispatch sends exactly one response, after its device calls;
\* the response carries the received command ID, has length 1, and its byte
\* was written before sending and is 0 or 1.
C10_OneResponse ==
  pc = "done" =>
    /\ Len(Sends) = 1
    /\ IsSend(trace[Len(trace)])
    /\ Sends[1].args[1] = cmdID
    /\ Sends[1].args[2] = 1
    /\ Len(Sends[1].args) = 3
    /\ Sends[1].args[3] \in {0, 1}
    /\ Sends[1].args[3] # Uninit
    /\ responseSize = 1

C10_Witness ==
  /\ pc = "done"
  /\ cmdID = CMD_SET_CHORUS
  /\ payloadSize = 5
  /\ Len(trace) = 2
  /\ trace[1].op = "setChorus"
  /\ trace[2] = [op |-> "sendResponseMsg", args |-> <<CMD_SET_CHORUS, 1, 1>>]

====
